---- MODULE Spec2Model ----
(***************************************************************************)
(* Play Store download automation: runAllDevices drives                    *)
(* runPlayStoreDownloadFlow over the configured device list, one device    *)
(* after the other.  Every remote call (session open, element lookup,      *)
(* visibility check, click, setValue, key press, pause, deleteSession) is  *)
(* answered by the environment: it returns, or it rejects with a value.    *)
(***************************************************************************)
EXTENDS Integers, Sequences, FiniteSets, TLC

(* ----------------------------- bounds ---------------------------------- *)
\* longest configured device list explored
MaxDevices == 2
\* longest device array an external config file supplies
MaxConfigLen == 3

(* ------------------------- program constants --------------------------- *)
\* null / undefined handle (driver, searchElement, appElement, sessionId)
Null == 0

\* DEFAULT_CONFIG.devices
DEFAULT_DEVICES == <<"Galaxy S23", "Galaxy S22", "Pixel 7", "Pixel 6", "Galaxy S24">>

\* config.settings?.appToSearch || "Google Chrome"
appToSearch == "Google Chrome"

\* searchStrategies.length and appResultStrategies.length
NumSearchStrategies == 5
NumAppStrategies == 2

\* fixed pauses, in milliseconds
WarmUpPause == 10000
ResultsPause == 5000
AppPagePause == 5000
ObservePause == 30000

\* error messages built by the runner
MsgCredentials == " LambdaTest credentials missing! Check your .env file"
MsgSearchBox == " Search box not found."
MsgTextField == " Text field not found."
MsgAppNotFound == "\"" \o appToSearch \o "\" not found in results."
MsgNoButton == " 'Install' or 'Open' button not found."

(* ------------------ values a remote call can reject with --------------- *)
\* an Error object carries a string message; any other thrown value
\* (a string, undefined/null) has no string .message
MkError(m) == [kind |-> "Error", hasMessage |-> TRUE, message |-> m]
RemoteError == MkError("timeout")
ThrownString == [kind |-> "string", hasMessage |-> FALSE, message |-> ""]
ThrownUndefined == [kind |-> "undefined", hasMessage |-> FALSE, message |-> ""]
NoError == [kind |-> "none", hasMessage |-> FALSE, message |-> ""]
Rejections == {RemoteError, ThrownString, ThrownUndefined}

\* what the runtime raises for  undefined.message  /  undefined.includes(..)
TypeError == MkError("TypeError")

\* e.message evaluates without raising (e is not null/undefined)
CanReadMessage(e) == e.kind # "undefined"
\* e.message.slice(..) / e.message.includes(..) evaluates without raising
CanUseMessage(e) == CanReadMessage(e) /\ e.hasMessage

\* process.exit has not been called
NotExited == -1

\* device names an external config file may list
ConfigNames == {"Pixel 7", "Samsung Galaxy S20", "iPhone 12"}

\* what require('./config') gives: it throws, it yields a value that is not
\* an object (null), or it yields the exported object, whose .devices is
\* missing, a categorized object, or an array and whose .settings may be absent
ConfigValue(kind, shape, items, hasSettings) ==
  [kind |-> kind, devices |-> [shape |-> shape, items |-> items],
   settings |-> hasSettings]
ArraysUpTo(n) ==
  UNION {[1..m -> ConfigNames] : m \in 0..n}
ConfigFiles ==
  {ConfigValue("throws", "missing", <<>>, FALSE),
   ConfigValue("null", "missing", <<>>, FALSE)}
  \cup {ConfigValue("module", "missing", <<>>, h) : h \in BOOLEAN}
  \cup {ConfigValue("module", "object", <<>>, h) : h \in BOOLEAN}
  \cup {ConfigValue("module", "array", a, h) :
          a \in ArraysUpTo(MaxConfigLen), h \in BOOLEAN}

\* variant: the Array.isArray test is left out
LoadedDevicesNoArrayTest(file) ==
  IF file.kind # "module"
    THEN [shape |-> "array", items |-> DEFAULT_DEVICES]
    ELSE IF file.devices.shape = "missing"
              \/ (file.devices.shape = "array" /\ Len(file.devices.items) = 0)
           THEN [shape |-> "array", items |-> DEFAULT_DEVICES]
           ELSE file.devices
\* config.devices after the module-level load: the exported value unless
\* require threw, config.devices could not be read, or the value is missing,
\* not an array or empty
LoadedDevices(file) ==
  IF file.kind # "module"
    THEN [shape |-> "array", items |-> DEFAULT_DEVICES]
    ELSE IF file.devices.shape # "array" \/ Len(file.devices.items) = 0
           THEN [shape |-> "array", items |-> DEFAULT_DEVICES]
           ELSE file.devices
\* where config.settings comes from after the load
LoadedSettings(file) ==
  IF file.kind = "module" /\ file.settings THEN "config" ELSE "default"

\* Math.round((successCount / devices.length) * 100)
SuccessRate(s, n) == (200 * s + n) \div (2 * n)

\* Math.round(ms / 1000) for ms >= 0
RoundSeconds(ms) == (ms + 500) \div 1000

(* ------------------------------ state ---------------------------------- *)
VARIABLES
  username, accessKey,      \* process.env.LT_USERNAME / LT_ACCESS_KEY present
  configFile,               \* what require('./config') yields
  configDevices,            \* config.devices
  settingsFrom,             \* origin of config.settings
  devices,                  \* runAllDevices: const devices
  exitCode,                 \* argument of process.exit, NotExited before
  report,                   \* figures printed by the final summary
  i, results, successCount, failureCount, \* runAllDevices locals (i is 1-based)
  pc,                       \* position of the single thread of control
  deviceName, driver, elapsed, sessionId, \* runPlayStoreDownloadFlow locals
  searchElement, appElement, k,
  error,                    \* value caught by the runner's outer catch
  pending,                  \* completion of the runner: return value or throw
  invocations,              \* history: arguments the runner was called with
  running,                  \* history: device indexes whose run is in progress
  openSessions,             \* history: sessions opened, teardown not yet settled
  pausedAfter,              \* history: device indexes followed by the 15 s wait
  trace,                    \* history: remote calls of this run outside the loops
  attempts,                 \* history: per-candidate calls of the loop in progress
  done,                     \* history: interactions completed in this run
  teardowns                 \* history: deleteSession calls issued in this run

env == <<username, accessKey, configFile, configDevices, settingsFrom,
         devices, exitCode, report>>
batch == <<i, results, successCount, failureCount>>
handles == <<deviceName, driver, sessionId, searchElement, appElement>>
hist == <<invocations, running, openSessions, pausedAfter>>
vars == <<env, batch, pc, handles, elapsed, k, error, pending, hist, trace,
          attempts, done, teardowns>>

NoAttempt == [lookup |-> 0, isDisplayed |-> 0, click |-> 0,
              visible |-> FALSE, clicked |-> FALSE]
NewAttempts(loop, n) == [loop |-> loop, tried |-> [c \in 1..n |-> NoAttempt]]
\* a property that reads as undefined (result.error of a successful run)
Undefined == "<undefined>"
\* the RunResult object literal
RunResult(d, ok, secs, msg, sid) ==
  [device |-> d, success |-> ok, duration |-> secs, error |-> msg,
   sessionId |-> sid]
NoResult == RunResult("", FALSE, 0, Undefined, Null)
\* how an async call settles: it returns a result or it throws a value
NoPending == [type |-> "none", value |-> NoError, result |-> NoResult]
Returns(r) == [type |-> "return", value |-> NoError, result |-> r]
Throws(e) == [type |-> "throw", value |-> e, result |-> NoResult]

NoReport == [total |-> 0, success |-> 0, failure |-> 0, rate |-> 0]

\* nothing has run yet
Idle ==
  /\ username \in BOOLEAN
  /\ accessKey \in BOOLEAN
  /\ exitCode = NotExited
  /\ report = NoReport
  /\ i = 1
  /\ results = <<>>
  /\ successCount = 0
  /\ failureCount = 0
  /\ deviceName = ""
  /\ driver = Null
  /\ elapsed = 0
  /\ sessionId = Null
  /\ searchElement = Null
  /\ appElement = Null
  /\ k = 1
  /\ error = NoError
  /\ pending = NoPending
  /\ invocations = <<>>
  /\ running = {}
  /\ openSessions = {}
  /\ pausedAfter = {}
  /\ trace = <<>>
  /\ attempts = NewAttempts("none", 0)
  /\ done = <<>>
  /\ teardowns = 0

\* runAllDevices has read its device list, a configured array of 1..MaxDevices
\* names
Init ==
  /\ Idle
  /\ devices \in {SubSeq(DEFAULT_DEVICES, 1, n) : n \in 1..MaxDevices}
  /\ configFile = ConfigValue("module", "array", devices, TRUE)
  /\ configDevices = configFile.devices
  /\ settingsFrom = "config"
  /\ pc = "loop"

\* the module is about to be loaded, the config file being anything
InitConfig ==
  /\ Idle
  /\ configFile \in ConfigFiles
  /\ configDevices = [shape |-> "missing", items |-> <<>>]
  /\ settingsFrom = "default"
  /\ devices = <<>>
  /\ pc = "require"

(* --------------------------- module-level load ------------------------- *)
\* try { config = require('./config'); ... } catch { config = DEFAULT_CONFIG }
LoadConfig ==
  /\ pc = "require"
  /\ configDevices' = LoadedDevices(configFile)
  /\ settingsFrom' = LoadedSettings(configFile)
  /\ pc' = "loaded"
  /\ UNCHANGED <<username, accessKey, configFile, devices, exitCode, report,
                 batch, handles, elapsed, k, error, pending, hist, trace,
                 attempts, done, teardowns>>

\* const devices = config.devices || DEFAULT_CONFIG.devices
ReadDevices ==
  /\ pc = "loaded"
  /\ devices' = IF configDevices.shape = "missing"
                  THEN DEFAULT_DEVICES
                  ELSE configDevices.items
  /\ pc' = "loop"
  /\ UNCHANGED <<username, accessKey, configFile, configDevices, settingsFrom,
                 exitCode, report, batch, handles, elapsed, k, error, pending,
                 hist, trace, attempts, done, teardowns>>

(* ------------------------- control-flow helpers ------------------------ *)
\* control reaches the runner's outer catch with the thrown value e
Raise(e) == pc' = "catch" /\ error' = e
\* control moves on to label l
Goto(l) == pc' = l /\ UNCHANGED error
\* record a call on candidate c of the current resolution loop
Tried(c, a) == attempts' = [attempts EXCEPT !.tried[c] = a]
DidLookup(a) == [a EXCEPT !.lookup = @ + 1]
DidIsDisplayed(a) == [a EXCEPT !.isDisplayed = @ + 1]
SawVisible(a) == [a EXCEPT !.isDisplayed = @ + 1, !.visible = TRUE]
DidClick(a) == [a EXCEPT !.click = @ + 1]
Clicked(a) == [a EXCEPT !.click = @ + 1, !.clicked = TRUE]

(* ---------------------- runPlayStoreDownloadFlow ----------------------- *)
\* variant: the run is refused only when both credentials are absent
CheckCredentialsBothMissing ==
  /\ pc = "credentials"
  /\ IF ~username /\ ~accessKey
       THEN Raise(MkError(MsgCredentials))
       ELSE Goto("remote")
  /\ UNCHANGED <<env, batch, handles, elapsed, k, pending, hist, trace,
                 attempts, done, teardowns>>

\* try: credentials read from the environment
CheckCredentials ==
  /\ pc = "credentials"
  /\ IF ~username \/ ~accessKey
       THEN Raise(MkError(MsgCredentials))
       ELSE Goto("remote")
  /\ UNCHANGED <<env, batch, handles, elapsed, k, pending, hist, trace,
                 attempts, done, teardowns>>

\* driver = await remote({...})
OpenSession ==
  /\ pc = "remote"
  /\ trace' = Append(trace, "remote")
  /\ \/ /\ driver' = i
        /\ openSessions' = openSessions \cup {i}
        /\ Goto("getSessionId")
     \/ /\ \E e \in Rejections : Raise(e)
        /\ UNCHANGED <<driver, openSessions>>
  /\ UNCHANGED <<env, batch, deviceName, sessionId, searchElement, appElement,
                 elapsed, k, pending, invocations, running, pausedAfter,
                 attempts, done, teardowns>>

\* const sessionId = await driver.getSessionId()
GetSessionId ==
  /\ pc = "getSessionId"
  /\ trace' = Append(trace, "getSessionId")
  /\ \/ sessionId' = driver /\ Goto("pauseWarmUp")
     \/ (\E e \in Rejections : Raise(e)) /\ UNCHANGED sessionId
  /\ UNCHANGED <<env, batch, deviceName, driver, searchElement, appElement,
                 elapsed, k, pending, hist, attempts, done, teardowns>>

\* await driver.pause(10000), then the search-box loop starts
PauseWarmUp ==
  /\ pc = "pauseWarmUp"
  /\ trace' = Append(trace, "pause")
  /\ \/ /\ elapsed' = elapsed + WarmUpPause
        /\ searchElement' = Null
        /\ k' = 1
        /\ attempts' = NewAttempts("search", NumSearchStrategies)
        /\ Goto("searchLookup")
     \/ /\ \E e \in Rejections : Raise(e)
        /\ UNCHANGED <<elapsed, searchElement, k, attempts>>
  /\ UNCHANGED <<env, batch, deviceName, driver, sessionId, appElement,
                 pending, hist, done, teardowns>>

\* for (const strategy of searchStrategies): next iteration or loop exit
NextSearchCandidate ==
  IF k < NumSearchStrategies
    THEN k' = k + 1 /\ Goto("searchLookup")
    ELSE k' = k /\ Goto("searchCheck")

\* catch (e) { console.log(`... ${e.message.slice(0, 50)}...`) }
SearchCatch(e) ==
  IF CanUseMessage(e)
    THEN NextSearchCandidate
    ELSE Raise(TypeError) /\ UNCHANGED k

\* searchElement = await driver.$(strategy.selector)
SearchLookup ==
  /\ pc = "searchLookup"
  /\ Tried(k, DidLookup(attempts.tried[k]))
  /\ \/ searchElement' = k /\ Goto("searchIsDisplayed") /\ UNCHANGED k
     \/ (\E e \in Rejections : SearchCatch(e)) /\ UNCHANGED searchElement
  /\ UNCHANGED <<env, batch, deviceName, driver, sessionId, appElement,
                 elapsed, pending, hist, trace, done, teardowns>>

\* if (await searchElement.isDisplayed())
SearchIsDisplayed ==
  /\ pc = "searchIsDisplayed"
  /\ \/ Tried(k, SawVisible(attempts.tried[k])) /\ Goto("searchClick") /\ UNCHANGED k
     \/ Tried(k, DidIsDisplayed(attempts.tried[k])) /\ NextSearchCandidate
     \/ Tried(k, DidIsDisplayed(attempts.tried[k])) /\ \E e \in Rejections : SearchCatch(e)
  /\ UNCHANGED <<env, batch, handles, elapsed, pending, hist, trace, done,
                 teardowns>>

\* variant: no break after the click, the scan goes on
SearchClickNoBreak ==
  /\ pc = "searchClick"
  /\ \/ /\ Tried(k, Clicked(attempts.tried[k]))
        /\ done' = Append(done, "searchClick")
        /\ NextSearchCandidate
     \/ /\ Tried(k, DidClick(attempts.tried[k]))
        /\ \E e \in Rejections : SearchCatch(e)
        /\ UNCHANGED done
  /\ UNCHANGED <<env, batch, handles, elapsed, pending, hist, trace,
                 teardowns>>

\* await searchElement.click(); break
SearchClick ==
  /\ pc = "searchClick"
  /\ \/ /\ Tried(k, Clicked(attempts.tried[k]))
        /\ done' = Append(done, "searchClick")
        /\ Goto("searchCheck")
        /\ UNCHANGED k
     \/ /\ Tried(k, DidClick(attempts.tried[k]))
        /\ \E e \in Rejections : SearchCatch(e)
        /\ UNCHANGED done
  /\ UNCHANGED <<env, batch, handles, elapsed, pending, hist, trace,
                 teardowns>>

\* if (!searchElement) throw new Error(" Search box not found.")
SearchCheck ==
  /\ pc = "searchCheck"
  /\ IF searchElement = Null
       THEN Raise(MkError(MsgSearchBox))
       ELSE Goto("inputLookup")
  /\ attempts' = NewAttempts("none", 0)
  /\ UNCHANGED <<env, batch, handles, elapsed, k, pending, hist, trace,
                 done, teardowns>>

\* const inputField = await driver.$('...EditText')
InputLookup ==
  /\ pc = "inputLookup"
  /\ trace' = Append(trace, "inputField.$")
  /\ \/ Goto("inputIsDisplayed")
     \/ \E e \in Rejections : Raise(e)
  /\ UNCHANGED <<env, batch, handles, elapsed, k, pending, hist, attempts,
                 done, teardowns>>

\* variant: a visible text input goes straight to the key press
InputIsDisplayedSkipsSetValue ==
  /\ pc = "inputIsDisplayed"
  /\ trace' = Append(trace, "inputField.isDisplayed")
  /\ \/ Goto("pressKeyCode")
     \/ Raise(MkError(MsgTextField))
     \/ \E e \in Rejections : Raise(e)
  /\ UNCHANGED <<env, batch, handles, elapsed, k, pending, hist, attempts,
                 done, teardowns>>

\* if (await inputField.isDisplayed()) ... else throw " Text field not found."
InputIsDisplayed ==
  /\ pc = "inputIsDisplayed"
  /\ trace' = Append(trace, "inputField.isDisplayed")
  /\ \/ Goto("setValue")
     \/ Raise(MkError(MsgTextField))
     \/ \E e \in Rejections : Raise(e)
  /\ UNCHANGED <<env, batch, handles, elapsed, k, pending, hist, attempts,
                 done, teardowns>>

\* await inputField.setValue(appToSearch)
SetValue ==
  /\ pc = "setValue"
  /\ trace' = Append(trace, "inputField.setValue")
  /\ \/ done' = Append(done, "setValue") /\ Goto("pressKeyCode")
     \/ (\E e \in Rejections : Raise(e)) /\ UNCHANGED done
  /\ UNCHANGED <<env, batch, handles, elapsed, k, pending, hist, attempts,
                 teardowns>>

\* await driver.pressKeyCode(66)
PressKeyCode ==
  /\ pc = "pressKeyCode"
  /\ trace' = Append(trace, "pressKeyCode")
  /\ \/ done' = Append(done, "pressKeyCode") /\ Goto("pauseResults")
     \/ (\E e \in Rejections : Raise(e)) /\ UNCHANGED done
  /\ UNCHANGED <<env, batch, handles, elapsed, k, pending, hist, attempts,
                 teardowns>>

\* await driver.pause(5000), then the app-result loop starts
PauseResults ==
  /\ pc = "pauseResults"
  /\ trace' = Append(trace, "pause")
  /\ \/ /\ elapsed' = elapsed + ResultsPause
        /\ appElement' = Null
        /\ k' = 1
        /\ attempts' = NewAttempts("app", NumAppStrategies)
        /\ Goto("appLookup")
     \/ /\ \E e \in Rejections : Raise(e)
        /\ UNCHANGED <<elapsed, appElement, k, attempts>>
  /\ UNCHANGED <<env, batch, deviceName, driver, sessionId, searchElement,
                 pending, hist, done, teardowns>>

\* for (const strategy of appResultStrategies): next iteration or loop exit
NextAppCandidate ==
  IF k < NumAppStrategies
    THEN k' = k + 1 /\ Goto("appLookup")
    ELSE k' = k /\ Goto("appCheck")

\* catch (e) { console.log(`... ${e.message.slice(0, 50)}...`) }
AppCatch(e) ==
  IF CanUseMessage(e)
    THEN NextAppCandidate
    ELSE Raise(TypeError) /\ UNCHANGED k

\* appElement = await driver.$(strategy.selector)
AppLookup ==
  /\ pc = "appLookup"
  /\ Tried(k, DidLookup(attempts.tried[k]))
  /\ \/ appElement' = k /\ Goto("appIsDisplayed") /\ UNCHANGED k
     \/ (\E e \in Rejections : AppCatch(e)) /\ UNCHANGED appElement
  /\ UNCHANGED <<env, batch, deviceName, driver, sessionId, searchElement,
                 elapsed, pending, hist, trace, done, teardowns>>

\* if (await appElement.isDisplayed())
AppIsDisplayed ==
  /\ pc = "appIsDisplayed"
  /\ \/ Tried(k, SawVisible(attempts.tried[k])) /\ Goto("appClick") /\ UNCHANGED k
     \/ Tried(k, DidIsDisplayed(attempts.tried[k])) /\ NextAppCandidate
     \/ Tried(k, DidIsDisplayed(attempts.tried[k])) /\ \E e \in Rejections : AppCatch(e)
  /\ UNCHANGED <<env, batch, handles, elapsed, pending, hist, trace, done,
                 teardowns>>

\* await appElement.click(); break
AppClick ==
  /\ pc = "appClick"
  /\ \/ /\ Tried(k, Clicked(attempts.tried[k]))
        /\ done' = Append(done, "appClick")
        /\ Goto("appCheck")
        /\ UNCHANGED k
     \/ /\ Tried(k, DidClick(attempts.tried[k]))
        /\ \E e \in Rejections : AppCatch(e)
        /\ UNCHANGED done
  /\ UNCHANGED <<env, batch, handles, elapsed, pending, hist, trace,
                 teardowns>>

\* if (!appElement) throw new Error(`"${appToSearch}" not found in results.`)
AppCheck ==
  /\ pc = "appCheck"
  /\ IF appElement = Null
       THEN Raise(MkError(MsgAppNotFound))
       ELSE Goto("pauseAppPage")
  /\ attempts' = NewAttempts("none", 0)
  /\ UNCHANGED <<env, batch, handles, elapsed, k, pending, hist, trace,
                 done, teardowns>>

\* await driver.pause(5000)
PauseAppPage ==
  /\ pc = "pauseAppPage"
  /\ trace' = Append(trace, "pause")
  /\ \/ elapsed' = elapsed + AppPagePause /\ Goto("installLookup")
     \/ (\E e \in Rejections : Raise(e)) /\ UNCHANGED elapsed
  /\ UNCHANGED <<env, batch, handles, k, pending, hist, attempts, done,
                 teardowns>>

\* const installButton = await driver.$('...text("Install")...')
InstallLookup ==
  /\ pc = "installLookup"
  /\ trace' = Append(trace, "installButton.$")
  /\ \/ Goto("installIsDisplayed")
     \/ \E e \in Rejections : Raise(e)
  /\ UNCHANGED <<env, batch, handles, elapsed, k, pending, hist, attempts,
                 done, teardowns>>

\* const isInstallButtonVisible = await installButton.isDisplayed()
InstallIsDisplayed ==
  /\ pc = "installIsDisplayed"
  /\ trace' = Append(trace, "installButton.isDisplayed")
  /\ \/ Goto("installClick")
     \/ Goto("openLookup")
     \/ \E e \in Rejections : Raise(e)
  /\ UNCHANGED <<env, batch, handles, elapsed, k, pending, hist, attempts,
                 done, teardowns>>

\* variant: after the Install click the Open/Update branch is entered too
InstallClickThenOpen ==
  /\ pc = "installClick"
  /\ trace' = Append(trace, "installButton.click")
  /\ \/ done' = Append(done, "installClick") /\ Goto("openLookup")
     \/ (\E e \in Rejections : Raise(e)) /\ UNCHANGED done
  /\ UNCHANGED <<env, batch, handles, elapsed, k, pending, hist, attempts,
                 teardowns>>

\* await installButton.click()
InstallClick ==
  /\ pc = "installClick"
  /\ trace' = Append(trace, "installButton.click")
  /\ \/ done' = Append(done, "installClick") /\ Goto("pauseObserve")
     \/ (\E e \in Rejections : Raise(e)) /\ UNCHANGED done
  /\ UNCHANGED <<env, batch, handles, elapsed, k, pending, hist, attempts,
                 teardowns>>

\* const openOrUpdateButton = await driver.$('...textContains("Open")...')
OpenLookup ==
  /\ pc = "openLookup"
  /\ trace' = Append(trace, "openOrUpdateButton.$")
  /\ \/ Goto("openIsDisplayed")
     \/ \E e \in Rejections : Raise(e)
  /\ UNCHANGED <<env, batch, handles, elapsed, k, pending, hist, attempts,
                 done, teardowns>>

\* const isButtonVisible = await openOrUpdateButton.isDisplayed(); else throw
OpenIsDisplayed ==
  /\ pc = "openIsDisplayed"
  /\ trace' = Append(trace, "openOrUpdateButton.isDisplayed")
  /\ \/ Goto("openClick")
     \/ Raise(MkError(MsgNoButton))
     \/ \E e \in Rejections : Raise(e)
  /\ UNCHANGED <<env, batch, handles, elapsed, k, pending, hist, attempts,
                 done, teardowns>>

\* await openOrUpdateButton.click()
OpenClick ==
  /\ pc = "openClick"
  /\ trace' = Append(trace, "openOrUpdateButton.click")
  /\ \/ done' = Append(done, "openClick") /\ Goto("pauseObserve")
     \/ (\E e \in Rejections : Raise(e)) /\ UNCHANGED done
  /\ UNCHANGED <<env, batch, handles, elapsed, k, pending, hist, attempts,
                 teardowns>>

\* await driver.pause(30000)
PauseObserve ==
  /\ pc = "pauseObserve"
  /\ trace' = Append(trace, "pause")
  /\ \/ elapsed' = elapsed + ObservePause /\ Goto("return")
     \/ (\E e \in Rejections : Raise(e)) /\ UNCHANGED elapsed
  /\ UNCHANGED <<env, batch, handles, k, pending, hist, attempts, done,
                 teardowns>>

\* return { device, success: true, duration, sessionId }
ReturnSuccess ==
  /\ pc = "return"
  /\ pending' = Returns(RunResult(deviceName, TRUE, RoundSeconds(elapsed),
                                  Undefined, sessionId))
  /\ Goto("finally")
  /\ UNCHANGED <<env, batch, handles, elapsed, k, hist, trace, attempts,
                 done, teardowns>>

\* catch (error) { ... error.message.includes(..) ...; return { success: false } }
\* reading or using error.message raises out of the catch block when the
\* caught value has no string message
Catch ==
  /\ pc = "catch"
  /\ pending' = IF CanUseMessage(error)
                  THEN Returns(RunResult(deviceName, FALSE,
                                         RoundSeconds(elapsed), error.message,
                                         Null))
                  ELSE Throws(TypeError)
  /\ Goto("finally")
  /\ UNCHANGED <<env, batch, handles, elapsed, k, hist, trace, attempts,
                 done, teardowns>>

\* variant: the session is released only after a successful run
FinallyOnlyOnSuccess ==
  /\ pc = "finally"
  /\ IF driver # Null /\ pending.type = "return" /\ pending.result.success
       THEN Goto("deleteSession") /\ UNCHANGED running
       ELSE Goto("settled") /\ running' = running \ {i}
  /\ UNCHANGED <<env, batch, handles, elapsed, k, pending, invocations,
                 openSessions, pausedAfter, trace, attempts, done, teardowns>>

\* variant: the run settles without waiting for any teardown
FinallyNoTeardown ==
  /\ pc = "finally"
  /\ Goto("settled")
  /\ running' = running \ {i}
  /\ UNCHANGED <<env, batch, handles, elapsed, k, pending, invocations,
                 openSessions, pausedAfter, trace, attempts, done, teardowns>>

\* finally { if (driver) { ... } }
Finally ==
  /\ pc = "finally"
  /\ IF driver # Null
       THEN Goto("deleteSession") /\ UNCHANGED running
       ELSE Goto("settled") /\ running' = running \ {i}
  /\ UNCHANGED <<env, batch, handles, elapsed, k, pending, invocations,
                 openSessions, pausedAfter, trace, attempts, done, teardowns>>

\* variant: a rejected deleteSession is issued again
DeleteSessionRetry ==
  /\ pc = "deleteSession"
  /\ trace' = Append(trace, "deleteSession")
  /\ teardowns' = teardowns + 1
  /\ \/ /\ openSessions' = openSessions \ {driver}
        /\ running' = running \ {i}
        /\ Goto("settled")
     \/ /\ teardowns < 2
        /\ UNCHANGED <<openSessions, running>>
        /\ Goto("deleteSession")
  /\ UNCHANGED <<env, batch, handles, elapsed, k, pending, invocations,
                 pausedAfter, attempts, done>>

\* try { await driver.deleteSession() } catch (closeError) { ...closeError.message }
DeleteSession ==
  /\ pc = "deleteSession"
  /\ trace' = Append(trace, "deleteSession")
  /\ teardowns' = teardowns + 1
  /\ openSessions' = openSessions \ {driver}
  /\ running' = running \ {i}
  /\ \/ UNCHANGED pending
     \/ \E e \in Rejections :
          pending' = IF CanReadMessage(e) THEN pending ELSE Throws(TypeError)
  /\ Goto("settled")
  /\ UNCHANGED <<env, batch, handles, elapsed, k, invocations, pausedAfter,
                 attempts, done>>

(* ----------------------------- runAllDevices --------------------------- *)
\* for (let i = 0; i < devices.length; i++) { ... await runPlayStoreDownloadFlow(device)
InvokeRunner ==
  /\ pc = "loop"
  /\ i <= Len(devices)
  /\ invocations' = Append(invocations, devices[i])
  /\ running' = running \cup {i}
  /\ deviceName' = devices[i]
  /\ driver' = Null
  /\ sessionId' = Null
  /\ searchElement' = Null
  /\ appElement' = Null
  /\ elapsed' = 0
  /\ k' = 1
  /\ error' = NoError
  /\ pending' = NoPending
  /\ trace' = <<>>
  /\ attempts' = NewAttempts("none", 0)
  /\ done' = <<>>
  /\ teardowns' = 0
  /\ pc' = "credentials"
  /\ UNCHANGED <<env, batch, openSessions, pausedAfter>>

\* variant: a failed result ends the batch
PushResultStopOnFailure ==
  /\ pc = "settled"
  /\ pending.type = "return"
  /\ results' = Append(results, pending.result)
  /\ IF pending.result.success
       THEN successCount' = successCount + 1 /\ UNCHANGED failureCount
       ELSE failureCount' = failureCount + 1 /\ UNCHANGED successCount
  /\ IF i < Len(devices) /\ pending.result.success
       THEN pc' = "wait" /\ UNCHANGED i
       ELSE pc' = "loop" /\ i' = Len(devices) + 1
  /\ UNCHANGED <<env, handles, elapsed, k, error, pending, hist, trace,
                 attempts, done, teardowns>>

\* variant: every returned result is counted as a success
PushResultCountsSuccessOnly ==
  /\ pc = "settled"
  /\ pending.type = "return"
  /\ results' = Append(results, pending.result)
  /\ successCount' = successCount + 1
  /\ UNCHANGED failureCount
  /\ IF i < Len(devices)
       THEN pc' = "wait" /\ UNCHANGED i
       ELSE pc' = "loop" /\ i' = i + 1
  /\ UNCHANGED <<env, handles, elapsed, k, error, pending, hist, trace,
                 attempts, done, teardowns>>

\* results.push(result); success/failure count; wait unless last device
PushResult ==
  /\ pc = "settled"
  /\ pending.type = "return"
  /\ results' = Append(results, pending.result)
  /\ IF pending.result.success
       THEN successCount' = successCount + 1 /\ UNCHANGED failureCount
       ELSE failureCount' = failureCount + 1 /\ UNCHANGED successCount
  /\ IF i < Len(devices)
       THEN pc' = "wait" /\ UNCHANGED i
       ELSE pc' = "loop" /\ i' = i + 1
  /\ UNCHANGED <<env, handles, elapsed, k, error, pending, hist, trace,
                 attempts, done, teardowns>>

\* await new Promise(resolve => setTimeout(resolve, waitTime * 1000))
InterDevicePause ==
  /\ pc = "wait"
  /\ pausedAfter' = pausedAfter \cup {i}
  /\ i' = i + 1
  /\ pc' = "loop"
  /\ UNCHANGED <<env, results, successCount, failureCount, handles, elapsed,
                 k, error, pending, invocations, running, openSessions, trace,
                 attempts, done, teardowns>>

\* variant: a throwing run is counted but no result is synthesized
OrchestratorCatchNoPush ==
  /\ pc = "settled"
  /\ pending.type = "throw"
  /\ failureCount' = failureCount + 1
  /\ pc' = "loop"
  /\ i' = i + 1
  /\ UNCHANGED <<env, results, successCount, handles, elapsed, k, error,
                 pending, hist, trace, attempts, done, teardowns>>

\* variant: the synthesized result is pushed but not counted
OrchestratorCatchNoCount ==
  /\ pc = "settled"
  /\ pending.type = "throw"
  /\ results' = Append(results,
                       RunResult(devices[i], FALSE, 0, pending.value.message,
                                 Null))
  /\ pc' = "loop"
  /\ i' = i + 1
  /\ UNCHANGED <<env, successCount, failureCount, handles, elapsed, k, error,
                 pending, hist, trace, attempts, done, teardowns>>

\* catch (error) { failureCount++; results.push(failedResult); console.error(..) }
OrchestratorCatch ==
  /\ pc = "settled"
  /\ pending.type = "throw"
  /\ failureCount' = failureCount + 1
  /\ results' = IF CanReadMessage(pending.value)
                  THEN Append(results,
                         RunResult(devices[i], FALSE, 0,
                                   IF pending.value.hasMessage
                                     THEN pending.value.message
                                     ELSE Undefined,
                                   Null))
                  ELSE results
  /\ IF CanUseMessage(pending.value)
       THEN pc' = "loop" /\ i' = i + 1
       ELSE pc' = "rejected" /\ UNCHANGED i
  /\ UNCHANGED <<env, successCount, handles, elapsed, k, error, pending, hist,
                 trace, attempts, done, teardowns>>

\* loop exit: summary is printed and results returned
Summary ==
  /\ pc = "loop"
  /\ i > Len(devices)
  /\ report' = [total |-> Len(devices), success |-> successCount,
                failure |-> failureCount,
                rate |-> SuccessRate(successCount, Len(devices))]
  /\ pc' = "done"
  /\ UNCHANGED <<username, accessKey, configFile, configDevices, settingsFrom,
                 devices, exitCode, batch, handles, elapsed, k, error, pending,
                 hist, trace, attempts, done, teardowns>>

(* ------------------------------ main module ---------------------------- *)
\* variant: exit code 0 only when every device succeeded
MainModuleAllSucceeded ==
  /\ pc \in {"done", "rejected"}
  /\ exitCode' = IF pc = "done"
                       /\ Cardinality({j \in 1..Len(results) :
                                         results[j].success}) = Len(results)
                   THEN 0
                   ELSE 1
  /\ pc' = "exited"
  /\ UNCHANGED <<username, accessKey, configFile, configDevices, settingsFrom,
                 devices, report, batch, handles, elapsed, k, error, pending,
                 hist, trace, attempts, done, teardowns>>

\* runAllDevices().then(results => process.exit(successCount > 0 ? 0 : 1))
\*                 .catch(error => process.exit(1))
MainModule ==
  /\ pc \in {"done", "rejected"}
  /\ exitCode' = IF pc = "done"
                       /\ Cardinality({j \in 1..Len(results) :
                                         results[j].success}) > 0
                   THEN 0
                   ELSE 1
  /\ pc' = "exited"
  /\ UNCHANGED <<username, accessKey, configFile, configDevices, settingsFrom,
                 devices, report, batch, handles, elapsed, k, error, pending,
                 hist, trace, attempts, done, teardowns>>

Next ==
  \/ InvokeRunner \/ CheckCredentials \/ OpenSession \/ GetSessionId
  \/ PauseWarmUp \/ SearchLookup \/ SearchIsDisplayed \/ SearchClick
  \/ SearchCheck \/ InputLookup \/ InputIsDisplayed \/ SetValue
  \/ PressKeyCode \/ PauseResults \/ AppLookup \/ AppIsDisplayed \/ AppClick
  \/ AppCheck \/ PauseAppPage \/ InstallLookup \/ InstallIsDisplayed
  \/ InstallClick \/ OpenLookup \/ OpenIsDisplayed \/ OpenClick
  \/ PauseObserve \/ ReturnSuccess \/ Catch \/ Finally \/ DeleteSession
  \/ PushResult \/ InterDevicePause \/ OrchestratorCatch \/ Summary
  \/ MainModule

Spec == Init /\ [][Next]_vars

\* the module-level configuration load followed by the read of the device list
NextConfig == LoadConfig \/ ReadDevices

SpecConfig == InitConfig /\ [][NextConfig]_vars

(* ------------------------------ properties ----------------------------- *)
Candidates == DOMAIN attempts.tried
\* the element variable the loop in progress assigns
Selected == IF attempts.loop = "search" THEN searchElement ELSE appElement
\* no candidate of the loop in progress has been seen visible
NoneVisible == \A c \in Candidates : ~attempts.tried[c].visible
\* the runner has settled by returning a successful RunResult
ReturnedSuccess ==
  pc = "settled" /\ pending.type = "return" /\ pending.result.success
CredentialsMissing == ~username \/ ~accessKey

\* C1: runAllDevices returns exactly one result per configured device, the
\* j-th result carrying the j-th configured device name, whatever each run
\* did (succeeded, returned a failure, or threw).
C1_OneResultPerDevice ==
  /\ Len(results) <= Len(devices)
  /\ \A j \in 1..Len(results) : results[j].device = devices[j]
  /\ pc = "loop" => Len(results) = i - 1
  /\ pc = "done" => Len(results) = Len(devices)

C1_Witness ==
  /\ pc = "done"
  /\ Len(devices) >= 2
  /\ results[1] = RunResult(devices[1], FALSE, 0, "TypeError", Null)
  /\ results[2].success

\* C2: runPlayStoreDownloadFlow never throws: every call settles by returning
\* a RunResult, and when a failure reached the outer catch that result has
\* success = false and carries the error's message.
C2_RunnerNeverThrows ==
  pc = "settled" =>
    /\ pending.type = "return"
    /\ error # NoError =>
         /\ ~pending.result.success
         /\ pending.result.error = error.message

\* C3: when a resolution loop ends without any candidate having been seen
\* visible, the step fails with its element-not-found error and the following
\* step is not entered.
C3_NoVisibleCandidateFails ==
  [][/\ (pc = "searchCheck" /\ NoneVisible) =>
          (pc' = "catch" /\ error' = MkError(MsgSearchBox))
     /\ (pc = "appCheck" /\ NoneVisible) =>
          (pc' = "catch" /\ error' = MkError(MsgAppNotFound))]_vars

C5_TeardownInEveryRun ==
  pc = "settled" => teardowns = 1

\* C5 amended: deleteSession is attempted exactly once in every run whose
\* session open returned a handle, whether the run succeeded or failed, and
\* not at all in a run that never obtained a session.
C5_TeardownOncePerOpenedSession ==
  /\ teardowns <= 1
  /\ pc = "settled" => teardowns = (IF driver # Null THEN 1 ELSE 0)

C5_Witness ==
  /\ pc = "settled"
  /\ driver # Null
  /\ pending.type = "return"
  /\ ~pending.result.success
  /\ teardowns = 1

\* C6: the teardown step never changes how the run settles: the completion
\* decided before deleteSession (returned RunResult with its success, error
\* and duration) is still the completion after it, and it never becomes a throw.
C6_TeardownKeepsOutcome ==
  [][pc = "deleteSession" => pending' = pending]_vars

\* C7: with the username or the access key absent, no remote call is made in
\* any run (no session open, lookup, interaction or teardown) and every run
\* returns a failed RunResult with the credentials-missing error.
C7_NoRemoteCallWithoutCredentials ==
  CredentialsMissing =>
    /\ trace = <<>>
    /\ attempts.loop = "none"
    /\ done = <<>>
    /\ teardowns = 0
    /\ driver = Null
    /\ openSessions = {}
    /\ pc = "settled" =>
         /\ pending.type = "return"
         /\ ~pending.result.success
         /\ pending.result.error = MsgCredentials
    /\ \A j \in 1..Len(results) :
         ~results[j].success /\ results[j].error = MsgCredentials

C7_Witness ==
  /\ pc = "done"
  /\ ~username
  /\ accessKey
  /\ Len(results) = 2

\* C8: a run returns success = true only after, in this order, a click on a
\* visible search box, setValue and the key press on a visible text input, a
\* click on a visible app result entry and a click on a visible Install or
\* Open button.
C8_SuccessOnlyAfterAllInteractions ==
  ReturnedSuccess =>
    \E b \in {"installClick", "openClick"} :
      done = <<"searchClick", "setValue", "pressKeyCode", "appClick", b>>

\* C9: at most one device run is in progress and at most one session is open
\* at any time; a session is open only inside its own run, and when a run
\* issues its session open every earlier session has had its teardown attempt.
C9_OneSessionAtATime ==
  /\ Cardinality(running) <= 1
  /\ Cardinality(openSessions) <= 1
  /\ openSessions \subseteq running
  /\ pc \in {"credentials", "remote"} => openSessions = {}

C9_Witness ==
  /\ pc = "remote"
  /\ i = 2
  /\ results[1].success
  /\ results[1].sessionId = 1

\* C10: the runner is invoked exactly once per configured device, in
\* configuration order, and a failed or throwing run never stops the batch.
C10_RunnerInvokedOncePerDevice ==
  /\ Len(invocations) <= Len(devices)
  /\ invocations = SubSeq(devices, 1, Len(invocations))
  /\ pc = "loop" => Len(invocations) = i - 1
  /\ pc \notin {"loop", "done", "rejected", "exited"} => Len(invocations) = i
  /\ pc = "exited" => invocations = devices
  /\ pc = "done" => invocations = devices

C10_Witness ==
  /\ pc = "credentials"
  /\ i = 2
  /\ ~results[1].success
  /\ invocations = <<devices[1], devices[2]>>

\* the calls recorded in the run's trace
Issued(op) == \E n \in 1..Len(trace) : trace[n] = op
Count(op) == Cardinality({n \in 1..Len(trace) : trace[n] = op})
Successes == {j \in 1..Len(results) : results[j].success}
Failures == {j \in 1..Len(results) : ~results[j].success}
\* pc is inside a resolution loop, at a lookup or a visibility check
InLoopProbe ==
  pc \in {"searchLookup", "searchIsDisplayed", "appLookup", "appIsDisplayed"}
LoopSize == Cardinality(Candidates)

\* C11: the process exits with code 0 exactly when at least one result of the
\* batch has success = true, and with code 1 when every device failed or
\* runAllDevices rejected.
C11_ExitCodeReflectsAnySuccess ==
  /\ exitCode \in {NotExited, 0, 1}
  /\ pc = "exited" <=> exitCode # NotExited
  /\ pc = "exited" =>
       /\ exitCode = 0 <=> (Len(results) = Len(devices) /\ Successes # {})
       /\ exitCode = 1 <=> (Len(results) < Len(devices) \/ Successes = {})

C11_Witness ==
  /\ pc = "exited"
  /\ exitCode = 0
  /\ Len(results) = 2
  /\ ~results[1].success
  /\ results[2].success

C13_DeviceListAlwaysUsable ==
  pc # "require" =>
    /\ configDevices.shape = "array"
    /\ Len(configDevices.items) > 0
    /\ configDevices.items =
         (IF /\ configFile.kind = "module"
             /\ configFile.devices.shape = "array"
             /\ configFile.devices.items # <<>>
            THEN configFile.devices.items
            ELSE DEFAULT_DEVICES)
    /\ pc = "loop" => devices = configDevices.items

C13_Witness ==
  /\ pc = "loop"
  /\ configFile.kind = "module"
  /\ configFile.devices.shape = "object"
  /\ devices = DEFAULT_DEVICES

\* C14: a lookup or visibility check that throws inside a resolution loop
\* never takes control out of the loop: the next candidate is tried, or the
\* loop ends at its not-found check when the list is exhausted.
C14_LoopErrorsAreSwallowed ==
  [][InLoopProbe =>
       /\ pc' # "catch"
       /\ (k' # k) => (k' = k + 1 /\ pc' \in {"searchLookup", "appLookup"})]_vars

\* C15: a visible Install button is clicked without the Open/Update button
\* ever being looked up; the Open/Update button is looked up only after
\* Install was seen not visible and is clicked when visible, which lets the
\* run succeed; when neither is visible the run fails with the no-button error
\* (the catch block builds the failed RunResult carrying it) and no button was
\* clicked.
C15_InstallOrOpen ==
  /\ Issued("installButton.click") => ~Issued("openOrUpdateButton.$")
  /\ Issued("openOrUpdateButton.$") => Issued("installButton.isDisplayed")
  /\ Count("installButton.click") + Count("openOrUpdateButton.click") <= 1
  /\ pc = "installClick" => ~Issued("openOrUpdateButton.$")
  /\ pc = "pauseObserve" =>
       Count("installButton.click") + Count("openOrUpdateButton.click") = 1
  /\ error = MkError(MsgNoButton) =>
       /\ ~Issued("installButton.click")
       /\ ~Issued("openOrUpdateButton.click")
       /\ Issued("openOrUpdateButton.isDisplayed")
       /\ pc = "finally" =>
            pending = Returns(RunResult(deviceName, FALSE,
                                        RoundSeconds(elapsed), MsgNoButton, Null))
  /\ ReturnedSuccess =>
       (Issued("installButton.click") \/ Issued("openOrUpdateButton.click"))

C15_Witness ==
  /\ ReturnedSuccess
  /\ Issued("installButton.isDisplayed")
  /\ Issued("openOrUpdateButton.click")
  /\ ~Issued("installButton.click")

\* C16: whenever a device run starts or the batch ends, every earlier device
\* except the last has been followed by exactly one inter-device pause,
\* whether its run returned or threw, and the last device by none.
C16_PauseBetweenDevices ==
  /\ pc = "credentials" => pausedAfter = 1..(i - 1)
  /\ pc = "done" => pausedAfter = 1..(Len(devices) - 1)

\* C17: when the runner throws, runAllDevices appends exactly one result for
\* that device, with success = false, duration = 0, sessionId = null and the
\* caught error's message, and counts one failure.
C17_SynthesizedFailure ==
  [][(pc = "settled" /\ pending.type = "throw") =>
       /\ results' = Append(results,
                            RunResult(devices[i], FALSE, 0,
                                      pending.value.message, Null))
       /\ failureCount' = failureCount + 1
       /\ successCount' = successCount]_vars

C17_Witness ==
  /\ pc = "loop"
  /\ i = 2
  /\ pending.type = "throw"
  /\ failureCount = 1
  /\ results = <<RunResult(devices[1], FALSE, 0, "TypeError", Null)>>

\* C18: setValue and the Enter key press are issued only after the text input
\* was seen visible, setValue before the key press; when the input is not
\* visible the run fails with the text-field error (the catch block builds the
\* failed RunResult carrying it) and neither is issued.
C18_QueryOnlyOnVisibleInput ==
  /\ error = MkError(MsgTextField) =>
       /\ ~Issued("inputField.setValue")
       /\ ~Issued("pressKeyCode")
       /\ pc = "finally" =>
            pending = Returns(RunResult(deviceName, FALSE,
                                        RoundSeconds(elapsed), MsgTextField, Null))
  /\ \A n \in 1..Len(trace) :
       /\ trace[n] = "inputField.setValue" =>
            (n > 1 /\ trace[n - 1] = "inputField.isDisplayed")
       /\ trace[n] = "pressKeyCode" =>
            (n > 1 /\ trace[n - 1] = "inputField.setValue")

C18_Witness ==
  /\ pc = "finally"
  /\ error = MkError(MsgTextField)
  /\ trace[Len(trace)] = "inputField.isDisplayed"
  /\ pending.type = "return"
  /\ pending.result.error = MsgTextField

\* C19: within a run deleteSession is issued at most once, it has been issued
\* when the run settles exactly if the session open returned a handle, and no
\* call on the session follows it.
C19_TeardownIsLastCall ==
  /\ Count("deleteSession") = teardowns
  /\ Count("deleteSession") <= 1
  /\ Issued("deleteSession") =>
       (driver # Null /\ trace[Len(trace)] = "deleteSession"
        /\ pc \notin {"searchLookup", "searchIsDisplayed", "searchClick",
                      "appLookup", "appIsDisplayed", "appClick"})
  /\ pc = "settled" => (Issued("deleteSession") <=> driver # Null)
  /\ driver # Null => trace[1] = "remote"

C19_Witness ==
  /\ ReturnedSuccess
  /\ Count("deleteSession") = 1
  /\ trace[Len(trace)] = "deleteSession"
  /\ trace[1] = "remote"

====
